---- MODULE Spec2Model ----
(***************************************************************************)
(* neomap: the page crawler (src/src/pagecrawler.rs, src/src/page.rs) and  *)
(* the link-graph database (src/src/database.rs).                          *)
(*                                                                         *)
(* Text is modelled as sequences of one-character strings, so that the     *)
(* code's string tests (ends_with, contains, to_lowercase, the byte order  *)
(* used by sort) are computed and not assumed.                             *)
(***************************************************************************)
EXTENDS Naturals, Sequences, FiniteSets, Bags, TLC

VARIABLES
    root,       \* PageCrawler.url
    links,      \* PageCrawler.links: every url popped and not skipped, in order
    pages,      \* PageCrawler.pages: the urls that were expanded
    frontier,   \* the local stack of crawl()
    pc,         \* where crawl() is: "new", "loop", "done", "panicked"
    calls,      \* how many times crawl() was called on this PageCrawler
    panic,      \* which panic ended crawl(): "", "domain", "fetch", "join"
    fetchlog,   \* history: the urls Page::fetch was called on, in order
    served,     \* history: what each fetch got: the url, whether the fetch
                \* succeeded, the set of references on the page
    page,       \* a Page of its own (as crawl_page makes one): None, or Some([url, html])
    got,        \* the last call on that Page: its name, whether it panicked, its result
    site,       \* table site: a bag of rows [url, crawltime]
    link,       \* table link: a bag of rows [srcurl, dsturl]
    last        \* the last Database call: its name, arguments and result

vars == <<root, links, pages, frontier, pc, calls, panic, fetchlog, served, page, got,
          site, link, last>>
crawlvars == <<root, links, pages, frontier, pc, calls, panic, fetchlog, served>>
pagevars == <<page, got>>
dbvars == <<site, link, last>>

(***************************************************************************)
(* Bounds                                                                  *)
(***************************************************************************)
\* the number of href/src attributes on one page
MaxAttrs == 2
\* the largest crawltime a caller passes
MaxCrawltime == 2
\* the number of times crawl() is called on one PageCrawler
MaxCrawls == 2

(***************************************************************************)
(* Text                                                                    *)
(***************************************************************************)
\* the characters used, in byte order
Alphabet ==
    <<".", "/", "0", "1", "2", "3", "4", "5", "6", "7", "8", "9", ":", "@",
      "A", "B", "C", "D", "E", "F", "G", "H", "I", "J", "K", "L", "M",
      "N", "O", "P", "Q", "R", "S", "T", "U", "V", "W", "X", "Y", "Z", "[",
      "a", "b", "c", "d", "e", "f", "g", "h", "i", "j", "k", "l", "m",
      "n", "o", "p", "q", "r", "s", "t", "u", "v", "w", "x", "y", "z">>

Code(c) == CHOOSE i \in 1..Len(Alphabet) : Alphabet[i] = c

\* char::to_lowercase on one character
LowerChar(c) == IF Code(c) >= Code("A") /\ Code(c) <= Code("Z")
                THEN Alphabet[Code(c) + (Code("a") - Code("A"))]
                ELSE c

\* str::to_lowercase
to_lowercase(s) == [i \in 1..Len(s) |-> LowerChar(s[i])]

\* str::ends_with
ends_with(s, suffix) ==
    /\ Len(suffix) <= Len(s)
    /\ SubSeq(s, Len(s) - Len(suffix) + 1, Len(s)) = suffix

\* str::contains, for a one-character pattern
contains(s, c) == \E i \in 1..Len(s) : s[i] = c

\* the order of &str: byte-wise lexicographic
RECURSIVE StrLess(_, _)
StrLess(a, b) ==
    IF b = <<>> THEN FALSE
    ELSE IF a = <<>> THEN TRUE
    ELSE IF Head(a) = Head(b) THEN StrLess(Tail(a), Tail(b))
    ELSE Code(Head(a)) < Code(Head(b))

RECURSIVE JoinSegs(_)
\* "/" before every segment: <<dir, page.html>> is /dir/page.html, <<"">> is /
JoinSegs(segs) ==
    IF segs = <<>> THEN <<>> ELSE <<"/">> \o Head(segs) \o JoinSegs(Tail(segs))

ToSet(s) == {s[i] : i \in 1..Len(s)}

(***************************************************************************)
(* Urls (the url crate's Url, as far as the code looks at it)              *)
(***************************************************************************)
NoHost == [kind |-> "none", name |-> <<>>]
DomainHost(n) == [kind |-> "domain", name |-> n]
Ipv4Host(n) == [kind |-> "ipv4", name |-> n]

\* a url with an authority ("special" urls: http, https, file)
HierUrl(scheme, host, segs) ==
    [scheme |-> scheme, host |-> host, path |-> segs, opaque |-> FALSE]
\* a url that cannot be a base (mailto:..., data:...): its path is one opaque string
OpaqueUrl(scheme, text) ==
    [scheme |-> scheme, host |-> NoHost, path |-> <<text>>, opaque |-> TRUE]

\* Url::cannot_be_a_base
cannot_be_a_base(u) == u.opaque

\* Url::domain: Some(name) only for a domain-name host, None for an IP address or no host
None == [some |-> FALSE]
Some(v) == [some |-> TRUE, val |-> v]
domain(u) == IF u.host.kind = "domain" THEN Some(u.host.name) ELSE None

\* Url::path
path(u) == IF u.opaque THEN u.path[1] ELSE JoinSegs(u.path)

\* Url::as_str / to_string: the serialization
as_str(u) ==
    IF u.opaque THEN u.scheme \o <<":">> \o u.path[1]
    ELSE u.scheme \o <<":", "/", "/">> \o u.host.name \o JoinSegs(u.path)

s_https == <<"h", "t", "t", "p", "s">>
s_http == <<"h", "t", "t", "p">>
s_file == <<"f", "i", "l", "e">>
s_mailto == <<"m", "a", "i", "l", "t", "o">>
h_a == <<"a", ".", "e", "x", "a", "m", "p", "l", "e">>
h_b == <<"b", ".", "e", "x", "a", "m", "p", "l", "e">>
h_c == <<"c", ".", "e", "x", "a", "m", "p", "l", "e">>
h_ip == <<"1", "2", "7", ".", "0", ".", "0", ".", "1">>
g_dir == <<"d", "i", "r">>
g_img == <<"i", "m", "g">>
g_page == <<"p", "a", "g", "e", ".", "h", "t", "m", "l">>
g_p2 == <<"p", "2", ".", "H", "T", "M">>
g_png == <<"x", ".", "p", "n", "g">>
g_up == <<".", ".">>
g_here == <<".">>
g_x == <<"x">>
g_me == <<"m", "e", "@", "a", ".", "e", "x", "a", "m", "p", "l", "e">>

\* https://a.example/dir/page.html
UrlPage == HierUrl(s_https, DomainHost(h_a), <<g_dir, g_page>>)
\* https://a.example/dir/p2.HTM
UrlP2 == HierUrl(s_https, DomainHost(h_a), <<g_dir, g_p2>>)
\* https://a.example/img/x.png
UrlPng == HierUrl(s_https, DomainHost(h_a), <<g_img, g_png>>)
\* https://a.example/dir/me@a.example
UrlMe == HierUrl(s_https, DomainHost(h_a), <<g_dir, g_me>>)
\* https://a.example/ , https://b.example/ , https://c.example/
UrlA == HierUrl(s_https, DomainHost(h_a), <<<<>>>>)
UrlB == HierUrl(s_https, DomainHost(h_b), <<<<>>>>)
UrlC == HierUrl(s_https, DomainHost(h_c), <<<<>>>>)
\* http://127.0.0.1/
UrlIp == HierUrl(s_http, Ipv4Host(h_ip), <<<<>>>>)
\* file:///x
UrlFile == HierUrl(s_file, NoHost, <<g_x>>)
\* mailto:me@a.example
UrlMailto == OpaqueUrl(s_mailto, g_me)

(***************************************************************************)
(* References: the attribute values found in markup.  A reference is kept  *)
(* with its text (what the markup holds, what sort and dedup compare) and  *)
(* with what the url crate's parser makes of that text:                    *)
(*   abs      an absolute url that can be a base       https://a.example/  *)
(*   opaque   an absolute url that cannot be a base    mailto:me@a.example *)
(*   rel      no scheme, joinable                      ../img/x.png        *)
(*   invalid  a scheme, but no url                     https://            *)
(*   badrel   no scheme and not joinable               //[                 *)
(***************************************************************************)
AbsRef(u) == [kind |-> "abs", text |-> as_str(u), val |-> u]
OpaqueRef(u) == [kind |-> "opaque", text |-> as_str(u), val |-> u]
RelRef(segs) ==
    [kind |-> "rel",
     text |-> Tail(JoinSegs(segs)),
     val |-> [rooted |-> FALSE, segs |-> segs]]
InvalidRef(text) == [kind |-> "invalid", text |-> text, val |-> [none |-> TRUE]]
BadRelRef(text) == [kind |-> "badrel", text |-> text, val |-> [none |-> TRUE]]

\* https://a.example/dir/page.html
RefPage == AbsRef(UrlPage)
\* p2.HTM
RefP2 == RelRef(<<g_p2>>)
\* ../img/x.png
RefPng == RelRef(<<g_up, g_img, g_png>>)
\* https://b.example/
RefB == AbsRef(UrlB)
\* http://127.0.0.1/
RefIp == AbsRef(UrlIp)
\* file:///x
RefFile == AbsRef(UrlFile)
\* mailto:me@a.example
RefMailto == OpaqueRef(UrlMailto)
\* https://   (Url::parse: EmptyHost)
RefInvalid == InvalidRef(s_https \o <<":", "/", "/">>)
\* //[        (Url::parse: RelativeUrlWithoutBase; join: InvalidIpv6Address)
RefBadRel == BadRelRef(<<"/", "/", "[">>)

Refs == {RefPage, RefP2, RefPng, RefB, RefIp, RefFile, RefMailto, RefInvalid, RefBadRel}

(***************************************************************************)
(* The url crate's parser, as Page::get_links uses it                      *)
(***************************************************************************)
Ok(v) == [ok |-> TRUE, val |-> v]
Err(e) == [ok |-> FALSE, err |-> e]

\* Url::parse(l)
Url_parse(r) ==
    CASE r.kind \in {"abs", "opaque"} -> Ok(r.val)
      [] r.kind \in {"rel", "badrel"} -> Err("RelativeUrlWithoutBase")
      [] OTHER -> Err("EmptyHost")

RECURSIVE MergeSegs(_, _)
\* the segments of a relative path applied to a directory: ".." drops the last
\* segment (never above the root), "." is dropped
MergeSegs(dir, segs) ==
    IF segs = <<>> THEN dir
    ELSE IF Head(segs) = g_up
         THEN MergeSegs(IF dir = <<>> THEN <<>> ELSE SubSeq(dir, 1, Len(dir) - 1),
                        Tail(segs))
    ELSE IF Head(segs) = g_here THEN MergeSegs(dir, Tail(segs))
    ELSE MergeSegs(Append(dir, Head(segs)), Tail(segs))

\* the path of base.join(relative path): the base's directory, then the segments;
\* a path that ends in "." or ".." ends in "/"
JoinPath(base, rel) ==
    LET dir == IF rel.rooted THEN <<>> ELSE SubSeq(base.path, 1, Len(base.path) - 1)
        merged == MergeSegs(dir, rel.segs)
        slash == rel.segs = <<>> \/ rel.segs[Len(rel.segs)] \in {g_up, g_here}
    IN  IF slash \/ merged = <<>> THEN Append(merged, <<>>) ELSE merged

\* self.url.join(l), for the text of a reference without a scheme
Url_join(base, r) ==
    IF r.kind = "rel"
    THEN Ok(HierUrl(base.scheme, base.host, JoinPath(base, r.val)))
    ELSE Err("InvalidIpv6Address")

\* self.url.join(based.path()), for the path of a url that cannot be a base
Url_join_path(base, p) ==
    Ok(HierUrl(base.scheme, base.host, JoinPath(base, [rooted |-> FALSE, segs |-> <<p>>])))

(***************************************************************************)
(* Pages (src/src/page.rs).  A page's markup is the sequence of its        *)
(* href="..." and src="..." attributes, in document order.                 *)
(***************************************************************************)
Attrs == [attr : {"href", "src"}, value : Refs]

RECURSIVE SeqsUpTo(_, _)
SeqsUpTo(S, n) ==
    IF n = 0 THEN {<<>>}
    ELSE LET shorter == SeqsUpTo(S, n - 1)
         IN  shorter \cup {Append(q, x) : q \in {t \in shorter : Len(t) = n - 1}, x \in S}

\* the markup a fetch can return
Htmls == SeqsUpTo(Attrs, MaxAttrs)

RECURSIVE Matches(_, _)
\* the captures of <attr>="(?<url>.*?)" in the markup, in document order
Matches(html, attr) ==
    IF html = <<>> THEN <<>>
    ELSE IF Head(html).attr = attr
         THEN <<Head(html).value>> \o Matches(Tail(html), attr)
         ELSE Matches(Tail(html), attr)

get_href_links(html) == Matches(html, "href")
\* mutant: the src pattern matches nothing
get_src_links_none(html) == <<>>
get_src_links(html) == Matches(html, "src")

RECURSIVE InsertSorted(_, _)
InsertSorted(sorted, r) ==
    IF sorted = <<>> THEN <<r>>
    ELSE IF StrLess(r.text, Head(sorted).text) THEN <<r>> \o sorted
    ELSE <<Head(sorted)>> \o InsertSorted(Tail(sorted), r)

RECURSIVE sort_unstable(_)
\* links.sort_unstable(): ascending by text
sort_unstable(rs) ==
    IF rs = <<>> THEN <<>>
    ELSE InsertSorted(sort_unstable(Tail(rs)), Head(rs))

RECURSIVE dedup(_)
\* links.dedup(): consecutive equal texts collapse to the first
dedup(rs) ==
    IF Len(rs) < 2 THEN rs
    ELSE IF rs[1].text = rs[2].text THEN dedup(Tail(rs))
    ELSE <<rs[1]>> \o dedup(Tail(rs))

\* the body of the for loop of Page::get_links for one link l:
\* "push" the url to keep, "skip" (logged, continue), or "panic"
ResolveLink(url, l) ==
    LET parsed == Url_parse(l)
        u == IF parsed.ok THEN parsed
             ELSE IF parsed.err = "RelativeUrlWithoutBase" THEN Url_join(url, l)
             ELSE parsed
    IN  IF ~u.ok
        THEN IF ~parsed.ok /\ parsed.err = "RelativeUrlWithoutBase"
             THEN [tag |-> "panic"]
             ELSE [tag |-> "skip"]
        ELSE IF cannot_be_a_base(u.val)
             THEN LET j == Url_join_path(url, path(u.val))
                  IN  IF j.ok THEN [tag |-> "push", url |-> j.val] ELSE [tag |-> "skip"]
             ELSE [tag |-> "push", url |-> u.val]

RECURSIVE ResolveAll(_, _)
\* the for loop of Page::get_links: the urls pushed, or a panic
ResolveAll(url, ls) ==
    IF ls = <<>> THEN [panic |-> FALSE, urls |-> <<>>]
    ELSE LET r == ResolveLink(url, Head(ls))
             rest == ResolveAll(url, Tail(ls))
         IN  IF r.tag = "panic" \/ rest.panic THEN [panic |-> TRUE, urls |-> <<>>]
             ELSE IF r.tag = "skip" THEN rest
             ELSE [panic |-> FALSE, urls |-> <<r.url>> \o rest.urls]

\* mutant: the matches are resolved as extracted, neither sorted nor deduplicated
ExtractedLinks_raw(html) == get_href_links(html) \o get_src_links(html)
\* the links whose text get_links resolves: href matches, then src matches,
\* sorted and with duplicates removed
ExtractedLinks(html) ==
    dedup(sort_unstable(get_href_links(html) \o get_src_links(html)))

\* Page::get_links of the page at url holding html
Page_get_links(url, html) == ResolveAll(url, ExtractedLinks(html))

\* what Page::fetch can get: the markup, or a failure (http get failed, or the
\* body is not text), on which it panics
Responses == {Ok(h) : h \in Htmls} \cup {Err("http get failed")}

\* Page::new: the assertion panics on a url that cannot be a base
Page_new(url) ==
    IF cannot_be_a_base(url) THEN [panic |-> TRUE, page |-> None]
    ELSE [panic |-> FALSE, page |-> Some([url |-> url, html |-> <<>>])]

\* mutant: a failed fetch is logged and leaves the markup empty
Page_fetch_lenient(response) ==
    IF response.ok THEN [panic |-> FALSE, html |-> response.val]
    ELSE [panic |-> FALSE, html |-> <<>>]
\* Page::fetch: the markup that self.html becomes, or a panic
Page_fetch(response) ==
    IF response.ok THEN [panic |-> FALSE, html |-> response.val]
    ELSE [panic |-> TRUE, html |-> <<>>]

(***************************************************************************)
(* The crawler (src/src/pagecrawler.rs)                                    *)
(***************************************************************************)
\* mutant: ok starts out true, so every url counts as html
is_url_html_always(url) == TRUE
is_url_html(url) ==
    LET p == to_lowercase(path(url))
        ok1 == ends_with(p, <<".", "h", "t", "m", "l">>) \/ ends_with(p, <<".", "h", "t", "m">>)
    IN  IF ~contains(p, ".") THEN TRUE ELSE ok1

\* PageCrawler::new
PageCrawler_new(url) ==
    IF cannot_be_a_base(url) THEN Err("invalid url") ELSE Ok(url)

\* the urls a caller may hand to PageCrawler::new
SeedUrls == {UrlPage, UrlPng, UrlIp, UrlMailto}

\* mutant: only the page expanded last is compared
AlreadyProcessed_last(ps, currenturl) == ps # <<>> /\ ps[Len(ps)] = currenturl
\* mutant: the visited check is left out
AlreadyProcessed_never(ps, currenturl) == FALSE
\* self.pages.contains(&currenturl)
AlreadyProcessed(ps, currenturl) == currenturl \in ToSet(ps)

\* mutant: the frontier is a queue, the oldest entry comes first
Vec_pop_front(v) == [url |-> Head(v), rest |-> Tail(v)]
\* frontier.pop().unwrap(): the last entry, and what stays
Vec_pop(v) == [url |-> v[Len(v)], rest |-> SubSeq(v, 1, Len(v) - 1)]

\* cd != d, after both unwraps succeeded
DifferentDomain(cd, d) == cd # d

\* crawl() is called, on a new PageCrawler or on one whose crawl() has
\* returned: the frontier is a new Vec that holds the root; self.links and
\* self.pages are what they were
Crawl ==
    /\ pc \in {"new", "done"}
    /\ calls < MaxCrawls
    /\ calls' = calls + 1
    /\ frontier' = <<root>>
    /\ pc' = "loop"
    /\ UNCHANGED <<root, links, pages, panic, fetchlog, served>>
    /\ UNCHANGED <<pagevars, dbvars>>

\* one iteration of the while loop
Iterate ==
    /\ pc = "loop"
    /\ frontier # <<>>
    /\ LET currenturl == Vec_pop(frontier).url
           popped == Vec_pop(frontier).rest
       IN  IF AlreadyProcessed(pages, currenturl)
           THEN /\ frontier' = popped
                /\ UNCHANGED <<root, links, pages, pc, panic, fetchlog, served>>
           ELSE /\ links' = Append(links, currenturl)
                /\ IF ~domain(currenturl).some \/ ~domain(root).some
                   THEN \* unwrap() on None
                        /\ pc' = "panicked"
                        /\ panic' = "domain"
                        /\ frontier' = popped
                        /\ UNCHANGED <<root, pages, fetchlog, served>>
                   ELSE IF DifferentDomain(domain(currenturl).val, domain(root).val)
                           \/ ~is_url_html(currenturl)
                   THEN /\ frontier' = popped
                        /\ UNCHANGED <<root, pages, pc, panic, fetchlog, served>>
                   ELSE /\ pages' = Append(pages, currenturl)
                        /\ fetchlog' = Append(fetchlog, currenturl)
                        /\ \E response \in Responses :
                             LET fetched == Page_fetch(response)
                                 got_links == Page_get_links(currenturl, fetched.html)
                             IN  /\ served' = Append(served,
                                                [url |-> currenturl,
                                                 ok |-> response.ok,
                                                 refs |-> IF response.ok
                                                          THEN {a.value : a \in ToSet(response.val)}
                                                          ELSE {}])
                                 /\ IF fetched.panic
                                    THEN /\ pc' = "panicked"
                                         /\ panic' = "fetch"
                                         /\ frontier' = popped
                                    ELSE IF got_links.panic
                                    THEN /\ pc' = "panicked"
                                         /\ panic' = "join"
                                         /\ frontier' = popped
                                    ELSE /\ frontier' = popped \o got_links.urls
                                         /\ UNCHANGED <<pc, panic>>
                                 /\ UNCHANGED root
    /\ UNCHANGED calls
    /\ UNCHANGED <<pagevars, dbvars>>

\* the frontier is empty: the loop ends and crawl() returns
Return ==
    /\ pc = "loop"
    /\ frontier = <<>>
    /\ pc' = "done"
    /\ UNCHANGED <<root, links, pages, frontier, calls, panic, fetchlog, served>>
    /\ UNCHANGED <<pagevars, dbvars>>

\* PageCrawler::get_links
get_links == links

\* the urls crawl_page makes a Page of
PageUrls == {UrlPage, UrlA, UrlMailto}

\* Page::new(url), as crawl_page calls it
PageNew ==
    /\ ~page.some /\ ~got.panic
    /\ \E u \in PageUrls :
         /\ page' = Page_new(u).page
         /\ got' = [op |-> "new", panic |-> Page_new(u).panic, urls |-> <<>>]
    /\ UNCHANGED <<crawlvars, dbvars>>

\* page.fetch(), on the new Page
PageFetch ==
    /\ page.some /\ ~got.panic
    /\ got.op = "new"
    /\ \E response \in Responses :
         LET fetched == Page_fetch(response)
         IN  /\ page' = IF fetched.panic THEN page
                        ELSE Some([url |-> page.val.url, html |-> fetched.html])
             /\ got' = [op |-> "fetch", panic |-> fetched.panic, urls |-> <<>>]
    /\ UNCHANGED <<crawlvars, dbvars>>

\* page.get_links(), on the fetched Page
PageGetLinks ==
    /\ page.some /\ ~got.panic
    /\ got.op = "fetch"
    /\ LET r == Page_get_links(page.val.url, page.val.html)
       IN  got' = [op |-> "get_links", panic |-> r.panic, urls |-> r.urls]
    /\ UNCHANGED page
    /\ UNCHANGED <<crawlvars, dbvars>>

PageNext == PageNew \/ PageFetch \/ PageGetLinks

(***************************************************************************)
(* The database (src/src/database.rs).  A table is a bag of rows, so that  *)
(* "one row per key" is something the statements establish, not something  *)
(* the representation gives.                                               *)
(***************************************************************************)
\* SiteEntry::new
SiteEntry_new(url, lastcrawled) ==
    IF ~domain(url).some THEN Err("invalid url")
    ELSE Ok([url |-> as_str(url), crawltime |-> lastcrawled])

\* LinkEntry::new
LinkEntry_new(srcurl, dsturl) ==
    IF ~domain(srcurl).some THEN Err("invalid source url")
    ELSE IF ~domain(dsturl).some THEN Err("invalid destination url")
    ELSE Ok([srcurl |-> as_str(srcurl), dsturl |-> as_str(dsturl)])

\* the urls callers build entries from: sites are registered for a.example and
\* b.example; c.example occurs only in links (as a destination, or as a source
\* that was never registered); 127.0.0.1 has no domain
SiteUrls == {UrlA, UrlB, UrlIp}
DbUrls == {UrlA, UrlB, UrlC, UrlIp}
Crawltimes == 0..MaxCrawltime

\* whether the connection enforces the FOREIGN KEY clause of table link: the
\* connection is opened with its defaults and no PRAGMA is issued, and the
\* repository's tests (set_link_no_site, delete_site_deletes_links) pin the
\* default of its build to "enforced"
\* mutant: a connection that does not enforce foreign keys
ForeignKeys_off == FALSE
ForeignKeys == TRUE

\* WHERE column = value: the rows it selects, the rows it leaves, and how many
\* it selects
Where(table, column, value) ==
    [r \in {x \in DOMAIN table : x[column] = value} |-> table[r]]
WhereNot(table, column, value) ==
    [r \in {x \in DOMAIN table : x[column] # value} |-> table[r]]
Count(table, column, value) == BagCardinality(Where(table, column, value))

\* FOREIGN KEY (srcurl) REFERENCES site (url): the parent row exists
ParentExists(st, srcurl) == Count(st, "url", srcurl) > 0

\* mutant: deleting a site leaves its links
CascadeDelete_none(lk, url) == lk
\* ON DELETE CASCADE: the link rows that remain after site row url is deleted
CascadeDelete(lk, url) ==
    IF ForeignKeys THEN WhereNot(lk, "srcurl", url) ELSE lk

\* mutant: INSERT OR REPLACE, the row in conflict is deleted (its links go with
\* it) and a new one inserted
set_site_replace(st, lk, e) ==
    [res |-> "Ok",
     site |-> WhereNot(st, "url", e.url) (+) SetToBag({e}),
     link |-> IF Count(st, "url", e.url) > 0 THEN CascadeDelete(lk, e.url) ELSE lk]

\* mutant: ON CONFLICT(url) DO NOTHING, the stored crawltime is kept
set_site_keep(st, lk, e) ==
    IF Count(st, "url", e.url) > 0
    THEN [res |-> "Ok", site |-> st, link |-> lk]
    ELSE [res |-> "Ok", site |-> st (+) SetToBag({e}), link |-> lk]

\* Database::set_site: INSERT ... ON CONFLICT(url) DO UPDATE SET crawltime
set_site(st, lk, e) ==
    LET n == Count(st, "url", e.url)
        others == WhereNot(st, "url", e.url)
    IN  [res |-> "Ok",
         site |-> others (+) [r \in {e} |-> IF n = 0 THEN 1 ELSE n],
         link |-> lk]

\* mutant: the source is not checked against table site
set_link_unchecked(st, lk, e) ==
    IF CopiesIn(e, lk) > 0
    THEN [res |-> "Ok", site |-> st, link |-> lk]
    ELSE [res |-> "Ok", site |-> st, link |-> lk (+) SetToBag({e})]

\* mutant: a plain INSERT into a table without the primary key
set_link_plain(st, lk, e) ==
    IF ForeignKeys /\ ~ParentExists(st, e.srcurl)
    THEN [res |-> "Err", site |-> st, link |-> lk]
    ELSE [res |-> "Ok", site |-> st, link |-> lk (+) SetToBag({e})]

\* Database::set_link: INSERT ... ON CONFLICT(srcurl, dsturl) DO UPDATE SET
\* srcurl, dsturl (to the values they have)
set_link(st, lk, e) ==
    IF ForeignKeys /\ ~ParentExists(st, e.srcurl)
    THEN [res |-> "Err", site |-> st, link |-> lk]
    ELSE IF CopiesIn(e, lk) > 0
    THEN [res |-> "Ok", site |-> st, link |-> lk]
    ELSE [res |-> "Ok", site |-> st, link |-> lk (+) SetToBag({e})]

\* Database::delete_links_by_srcurl
delete_links_by_srcurl(st, lk, e) ==
    [res |-> "Ok", site |-> st, link |-> WhereNot(lk, "srcurl", e.srcurl)]

\* Database::delete_site_by_url
delete_site_by_url(st, lk, e) ==
    [res |-> "Ok",
     site |-> WhereNot(st, "url", e.url),
     link |-> CascadeDelete(lk, e.url)]

\* mutant: INSERT ... ON CONFLICT DO UPDATE, a missing site is inserted
update_site_crawltime_upsert(st, lk, e) ==
    [res |-> "Ok", site |-> WhereNot(st, "url", e.url) (+) SetToBag({e}), link |-> lk]

\* Database::update_site_crawltime: UPDATE site SET crawltime WHERE url, and an
\* error unless exactly one row changed
update_site_crawltime(st, lk, e) ==
    LET n == Count(st, "url", e.url)
        others == WhereNot(st, "url", e.url)
        updated == IF n = 0 THEN st ELSE others (+) [r \in {e} |-> n]
    IN  [res |-> IF n # 1 THEN "Err" ELSE "Ok", site |-> updated, link |-> lk]

\* mutant: SELECT url, crawltime FROM site LIMIT 1, any row
OldestRows_any(st) == BagToSet(st)
\* SELECT url, MIN(crawltime) FROM site, on a table with rows: the one row of
\* the result holds the least crawltime, and its bare column url comes from a
\* row that holds it (which one, when several do, the engine does not say)
OldestRows(st) == {r \in BagToSet(st) : \A x \in BagToSet(st) : r.crawltime <= x.crawltime}

\* Database::get_site_with_oldest_crawltime, the results it can have: an
\* aggregate query without GROUP BY has one row also on an empty table, with
\* NULL in both columns, on which row.get(0).unwrap() panics
get_site_with_oldest_crawltime(st) ==
    IF st = EmptyBag
    THEN {[res |-> "panic", url |-> <<>>, crawltime |-> 0]}
    ELSE {[res |-> "Some", url |-> r.url, crawltime |-> r.crawltime] : r \in OldestRows(st)}

Called(op, a, b, t, r) ==
    /\ last.res # "panic"
    /\ site' = r.site
    /\ link' = r.link
    /\ last' = [op |-> op, a |-> a, b |-> b, t |-> t, res |-> r.res]
    /\ UNCHANGED <<crawlvars, pagevars>>

SetSite ==
    \E u \in SiteUrls, t \in Crawltimes :
        LET e == SiteEntry_new(u, t)
        IN  /\ e.ok
            /\ Called("set_site", e.val.url, <<>>, t, set_site(site, link, e.val))

SetLink ==
    \E u \in DbUrls, v \in DbUrls :
        LET e == LinkEntry_new(u, v)
        IN  /\ e.ok
            /\ Called("set_link", e.val.srcurl, e.val.dsturl, 0, set_link(site, link, e.val))

DeleteLinksBySrcurl ==
    \E u \in DbUrls, v \in DbUrls :
        LET e == LinkEntry_new(u, v)
        IN  /\ e.ok
            /\ Called("delete_links_by_srcurl", e.val.srcurl, <<>>, 0,
                      delete_links_by_srcurl(site, link, e.val))

DeleteSiteByUrl ==
    \E u \in SiteUrls, t \in Crawltimes :
        LET e == SiteEntry_new(u, t)
        IN  /\ e.ok
            /\ Called("delete_site_by_url", e.val.url, <<>>, 0,
                      delete_site_by_url(site, link, e.val))

UpdateSiteCrawltime ==
    \E u \in SiteUrls, t \in Crawltimes :
        LET e == SiteEntry_new(u, t)
        IN  /\ e.ok
            /\ Called("update_site_crawltime", e.val.url, <<>>, t,
                      update_site_crawltime(site, link, e.val))

\* the urls a caller may hand to SiteEntry::new and LinkEntry::new
EntryUrls == {UrlA, UrlB, UrlC, UrlPage, UrlP2, UrlPng, UrlIp, UrlFile, UrlMailto}

\* SiteEntry::new is called
SiteEntryNew ==
    \E u \in EntryUrls, t \in Crawltimes :
        LET e == SiteEntry_new(u, t)
        IN  /\ e.ok \in BOOLEAN
            /\ Called("SiteEntry_new", u, <<>>, t,
                      [res |-> IF e.ok THEN "Ok" ELSE "Err", site |-> site, link |-> link])

\* LinkEntry::new is called
LinkEntryNew ==
    \E u \in EntryUrls, v \in EntryUrls :
        LET e == LinkEntry_new(u, v)
        IN  /\ e.ok \in BOOLEAN
            /\ Called("LinkEntry_new", u, v, 0,
                      [res |-> IF e.ok THEN "Ok" ELSE "Err", site |-> site, link |-> link])

EntryNext == SiteEntryNew \/ LinkEntryNew

GetSiteWithOldestCrawltime ==
    \E o \in get_site_with_oldest_crawltime(site) :
        Called("get_site_with_oldest_crawltime", o.url, <<>>, o.crawltime,
               [res |-> o.res, site |-> site, link |-> link])

\* the sites of the scheduler's table: three of them, so that the oldest is
\* neither the first nor the last registered
OldestUrls == {UrlA, UrlB, UrlC}

\* set_site for the sites of OldestUrls
RegisterSite ==
    \E u \in OldestUrls, t \in Crawltimes :
        LET e == SiteEntry_new(u, t)
        IN  /\ e.ok
            /\ Called("set_site", e.val.url, <<>>, t, set_site(site, link, e.val))

DbNext ==
    \/ SetSite
    \/ SetLink
    \/ DeleteLinksBySrcurl
    \/ DeleteSiteByUrl
    \/ UpdateSiteCrawltime
    \/ GetSiteWithOldestCrawltime

OldestNext == RegisterSite \/ GetSiteWithOldestCrawltime

CrawlNext == Crawl \/ Iterate \/ Return

\* a crawler as PageCrawler::new returns it, beside a database as
\* Database::connect_virtual returns it (both tables empty)
Init ==
    /\ root \in {u \in SeedUrls : PageCrawler_new(u).ok}
    /\ links = <<>>
    /\ pages = <<>>
    /\ frontier = <<>>
    /\ pc = "new"
    /\ calls = 0
    /\ panic = ""
    /\ fetchlog = <<>>
    /\ served = <<>>
    /\ page = None
    /\ got = [op |-> "", panic |-> FALSE, urls |-> <<>>]
    /\ site = EmptyBag
    /\ link = EmptyBag
    /\ last = [op |-> "connect_virtual", a |-> <<>>, b |-> <<>>, t |-> 0, res |-> "Ok"]

\* the same, with the crawler for https://a.example/dir/page.html
InitDb ==
    /\ Init
    /\ root = UrlPage

\* one crawl, from PageCrawler::new to the return or the panic of crawl()
Spec == Init /\ [][CrawlNext]_vars

\* crawl() is sequential code: each statement that can run, runs
FairSpec == Spec /\ WF_vars(CrawlNext)

\* any sequence of calls on one connection
SpecDb == InitDb /\ [][DbNext]_vars

\* one Page, as crawl_page uses it: Page::new, fetch, get_links
SpecPage == InitDb /\ [][PageNext]_vars

\* the construction of entries
SpecEntry == InitDb /\ [][EntryNext]_vars

\* the scheduler's use of the site table: sites are registered and the oldest
\* is asked for
SpecOldest == InitDb /\ [][OldestNext]_vars

(***************************************************************************)
(* Properties of the crawler                                               *)
(***************************************************************************)
\* the url about to be popped
Top == frontier[Len(frontier)]
Popped == SubSeq(frontier, 1, Len(frontier) - 1)
\* an iteration is about to run
AtLoop == pc = "loop" /\ frontier # <<>>

\* isHtml as the specification words it: the path, ignoring case, ends in
\* .html or .htm, or holds no "."
EndsWithIgnoringCase(p, suffix) ==
    /\ Len(p) >= Len(suffix)
    /\ \A i \in 1..Len(suffix) : LowerChar(p[Len(p) - Len(suffix) + i]) = suffix[i]
IsHtml(u) ==
    \/ EndsWithIgnoringCase(path(u), <<".", "h", "t", "m", "l">>)
    \/ EndsWithIgnoringCase(path(u), <<".", "h", "t", "m">>)
    \/ \A i \in 1..Len(path(u)) : path(u)[i] # "."

\* the references on the page that url served
RefsOn(u) == UNION {e.refs : e \in {x \in ToSet(served) : x.url = u}}
WasServed(u) == \E e \in ToSet(served) : e.url = u /\ e.ok
\* the urls the references on the page of u resolve to
ResolvedFrom(u) ==
    {ResolveLink(u, r).url : r \in {x \in RefsOn(u) : ResolveLink(u, x).tag = "push"}}
\* a url of the root's host that passes isHtml: the crawl expands it
Expandable(u) == u.host = root.host /\ IsHtml(u)

RECURSIVE LeastSet(_)
\* the least set above S closed under "the page of an expandable member links to"
LeastSet(S) ==
    LET T == S \cup UNION {ResolvedFrom(u) : u \in {v \in S : Expandable(v)}}
    IN  IF T = S THEN S ELSE LeastSet(T)

\* C1: a crawl in which no fetch fails never stops short of the end of the
\* loop: it has returned, or it can take its next step
C1_Terminates == panic # "fetch" => (pc = "done" \/ ENABLED CrawlNext)

\* every crawl ends: it returns or it panics (checked under FairSpec)
CrawlEnds == <>(pc \in {"done", "panicked"})

\* C2: when crawl has returned, the urls of get_links() are exactly the least set
\* that holds the root and, with every expandable url, what its page links to
C2_LeastSet ==
    pc = "done" =>
        /\ \A u \in LeastSet({root}) : Expandable(u) => WasServed(u)
        /\ ToSet(get_links) = LeastSet({root})

\* the two-page cycle has been crawled: page.html links to p2.HTM, p2.HTM links
\* back, and get_links() holds exactly the two
C2_Witness ==
    /\ pc = "done"
    /\ RefsOn(UrlPage) = {RefP2}
    /\ RefsOn(UrlP2) = {RefPage}
    /\ ToSet(get_links) = {UrlPage, UrlP2}

\* C3: no url is fetched twice, every fetched url is in the visited set, and
\* popping a visited url fetches nothing and records nothing
C3_FetchedOnce ==
    /\ [](/\ \A i, j \in 1..Len(fetchlog) : fetchlog[i] = fetchlog[j] => i = j
          /\ ToSet(fetchlog) \subseteq ToSet(pages))
    /\ [][(AtLoop /\ Top \in ToSet(pages)) =>
            (fetchlog' = fetchlog /\ links' = links /\ frontier' = Popped)]_vars

\* the root was pushed a second time (p2.HTM links back to it), popped and
\* skipped: the crawl ended with two fetches
C3_Witness ==
    /\ pc = "done"
    /\ RefPage \in RefsOn(UrlP2)
    /\ fetchlog = <<UrlPage, UrlP2>>

\* C4: every fetch is of a url that passes isHtml, and popping a url that fails
\* isHtml appends it to links, fetches nothing and pushes nothing
C4_OnlyHtmlFetched ==
    /\ [](\A u \in ToSet(fetchlog) \cup ToSet(pages) : IsHtml(u))
    /\ [][(AtLoop /\ ~IsHtml(Top)) =>
            (links' = Append(links, Top) /\ fetchlog' = fetchlog /\ frontier' = Popped)]_vars

\* ../img/x.png on https://a.example/dir/page.html: recorded, not fetched
C4_Witness ==
    /\ pc = "done"
    /\ RefPng \in RefsOn(UrlPage)
    /\ UrlPng \in ToSet(links)
    /\ UrlPng \notin ToSet(fetchlog)

\* C5: popping an unvisited url whose host is not the root's appends it to
\* links, fetches nothing, and the loop goes on
C5_OffHostContinues ==
    [][(AtLoop /\ Top \notin ToSet(pages) /\ Top.host # root.host) =>
        (links' = Append(links, Top) /\ fetchlog' = fetchlog /\ pc' = "loop")]_vars

\* a step on which a fetch succeeded
ServedStep == Len(served') = Len(served) + 1 /\ served'[Len(served')].ok

\* C14: when a fetched page holds a reference that cannot be resolved, the
\* crawl goes on: the loop is not left, and the urls of the page's resolvable
\* references are on the frontier
C14_UnresolvableDropped ==
    [][ServedStep =>
        LET e == served'[Len(served')]
            resolvable == {r \in e.refs : ResolveLink(e.url, r).tag = "push"}
        IN  /\ pc' = "loop"
            /\ {ResolveLink(e.url, r).url : r \in resolvable} \subseteq ToSet(frontier')]_vars

\* a fetch has failed
FetchFailed == \E e \in ToSet(served) : ~e.ok

\* C15: once a fetch has failed the crawl is over: crawl() has panicked, it
\* takes no further step, so nothing more is popped, recorded or fetched, and
\* it does not return
C15_FetchFailureAborts ==
    /\ [](FetchFailed => (pc = "panicked" /\ ~ENABLED CrawlNext))
    /\ [][FetchFailed => (fetchlog' = fetchlog /\ links' = links /\ pc' # "done")]_vars

\* the second fetch failed while another url was waiting on the frontier
C15_Witness ==
    /\ FetchFailed
    /\ pc = "panicked"
    /\ Len(fetchlog) = 2
    /\ frontier # <<>>

\* C17: every call of crawl() starts with the visited set and the discovered
\* list empty
C17_FreshEachCall ==
    [][(pc # "loop" /\ pc' = "loop") => (links = <<>> /\ pages = <<>>)]_vars

\* C18: an iteration pops the entry pushed last: the entries below it stay
\* as they are, what is pushed comes on top of them, and the url recorded or
\* fetched is the popped one, appended at the end of links
C18_StackOrder ==
    [][AtLoop =>
        /\ Len(frontier') >= Len(frontier) - 1
        /\ SubSeq(frontier', 1, Len(frontier) - 1) = Popped
        /\ links' \in {links, Append(links, Top)}
        /\ fetchlog' \in {fetchlog, Append(fetchlog, Top)}]_vars

\* depth first: page.html links to b.example and p2.HTM, p2.HTM to x.png;
\* p2.HTM, pushed last, is popped first, then x.png, and b.example at the end
C18_Witness ==
    /\ pc = "done"
    /\ RefsOn(UrlPage) = {RefB, RefP2}
    /\ links = <<UrlPage, UrlP2, UrlPng, UrlB>>

\* C19, as claimed: after every iteration the popped url is in the visited
\* set, and no url occurs twice in links
C19_VisitedIsPopped ==
    /\ [][(AtLoop /\ pc' = "loop") => Top \in ToSet(pages')]_vars
    /\ [](\A i, j \in 1..Len(links) : links[i] = links[j] => i = j)

\* C19, amended: after every iteration the popped url is in the visited set
\* exactly if it has the root's host and passes isHtml; the visited set is the
\* set of such urls popped so far, and none of them occurs twice in links
C19_VisitedIsExpanded ==
    /\ [][(AtLoop /\ pc' = "loop") => (Top \in ToSet(pages') <=> Expandable(Top))]_vars
    /\ [](pc \in {"loop", "done"} =>
            ToSet(pages) = {u \in ToSet(links) : Expandable(u)})
    /\ [](\A i, j \in 1..Len(links) :
            (links[i] = links[j] /\ Expandable(links[i])) => i = j)

\* b.example, linked from both pages, was popped twice and recorded twice,
\* and is not in the visited set
C19_Witness ==
    /\ pc = "done"
    /\ links = <<UrlPage, UrlP2, UrlB, UrlB>>
    /\ pages = <<UrlPage, UrlP2>>

\* C22: the frontier is capped whatever the pages link to: it never holds
\* more entries than a single page can hold references
C22_FrontierCapped == Len(frontier) <= MaxAttrs

\* C23: in one crawl on a new PageCrawler every visited url is in links, and a
\* url that occurs twice in links is off-host or fails isHtml, and was never
\* expanded
C23_OnlyUnexpandedRepeat ==
    calls <= 1 =>
        /\ ToSet(pages) \subseteq ToSet(links)
        /\ \A i, j \in 1..Len(links) :
             (i # j /\ links[i] = links[j]) =>
                (~Expandable(links[i]) /\ links[i] \notin ToSet(pages))

\* x.png, linked from page.html and from p2.HTM, occurs twice in links; the
\* two pages occur once
C23_Witness ==
    /\ calls = 1 /\ pc = "done"
    /\ links = <<UrlPage, UrlP2, UrlPng, UrlPng>>
    /\ pages = <<UrlPage, UrlP2>>

(***************************************************************************)
(* Properties of Page::get_links                                           *)
(***************************************************************************)
RECURSIVE PushedOf(_, _)
\* one url for every resolvable reference of rs, in the order of rs
PushedOf(url, rs) ==
    IF rs = <<>> THEN <<>>
    ELSE LET r == ResolveLink(url, Head(rs))
         IN  (IF r.tag = "push" THEN <<r.url>> ELSE <<>>) \o PushedOf(url, Tail(rs))

RECURSIVE Ascending(_)
\* the references of E, each once, by ascending text
Ascending(E) ==
    IF E = {} THEN <<>>
    ELSE LET least == CHOOSE r \in E : \A x \in E : x = r \/ StrLess(r.text, x.text)
         IN  <<least>> \o Ascending(E \ {least})

\* get_links() has returned
GotLinks == got.op = "get_links" /\ ~got.panic
\* the href matches, then the src matches, of the page's markup
Extracted == get_href_links(page.val.html) \o get_src_links(page.val.html)

\* C20, as claimed: get_links returns one url for every resolvable occurrence,
\* href matches then src matches, each in document order
C20_DocumentOrder == GotLinks => got.urls = PushedOf(page.val.url, Extracted)

\* C20, amended: get_links returns one url for every distinct resolvable
\* reference text, by ascending text
C20_SortedDistinct ==
    GotLinks => got.urls = PushedOf(page.val.url, Ascending(ToSet(Extracted)))

\* href="p2.HTM" before href="https://b.example/": b.example comes first
C20_Witness ==
    /\ GotLinks
    /\ page.val.url = UrlPage
    /\ page.val.html = <<[attr |-> "href", value |-> RefP2], [attr |-> "href", value |-> RefB]>>
    /\ got.urls = <<UrlB, UrlP2>>

(***************************************************************************)
(* Properties of the database                                              *)
(***************************************************************************)
SiteRows == BagToSet(site)
LinkRows == BagToSet(link)
IsSite(url) == \E r \in SiteRows : r.url = url
\* the entries callers can build
SiteEntries == {SiteEntry_new(u, t).val : u \in {x \in DbUrls : domain(x).some}, t \in Crawltimes}
LinkEntries ==
    {LinkEntry_new(u, v).val : u \in {x \in DbUrls : domain(x).some},
                               v \in {x \in DbUrls : domain(x).some}}
KeyA == as_str(UrlA)
KeyB == as_str(UrlB)
KeyC == as_str(UrlC)

\* C6: every link row's source is the url of a site row
C6_SourceIsSite == \A r \in LinkRows : IsSite(r.srcurl)

\* a link whose destination is no site row has been stored
C6_Witness ==
    /\ last.op = "set_link" /\ last.res = "Ok"
    /\ \E r \in LinkRows : r.srcurl = last.a /\ r.dsturl = last.b /\ ~IsSite(r.dsturl)

\* C7: set_link on a source that is no site row returns an error and leaves
\* the tables as they are; a set_link that returned Ok had a site row
C7_SetLinkNeedsSite ==
    /\ \A e \in LinkEntries :
         ~IsSite(e.srcurl) =>
            LET r == set_link(site, link, e)
            IN  r.res = "Err" /\ r.link = link /\ r.site = site
    /\ (last.op = "set_link" /\ last.res = "Ok") => IsSite(last.a)

\* set_link failed on a source that is no site row, on a table that holds links
C7_Witness ==
    /\ last.op = "set_link" /\ last.res = "Err"
    /\ ~IsSite(last.a)
    /\ link # EmptyBag

\* C8: delete_site_by_url(u) removes site row u and every link with source u,
\* and leaves every other site row and every link with another source
C8_DeleteCascades ==
    \A e \in SiteEntries :
        LET r == delete_site_by_url(site, link, e)
        IN  /\ r.res = "Ok"
            /\ \A x \in BagToSet(r.site) : x.url # e.url
            /\ \A x \in BagToSet(r.link) : x.srcurl # e.url
            /\ \A x \in SiteRows : x.url # e.url => CopiesIn(x, r.site) = CopiesIn(x, site)
            /\ \A x \in LinkRows : x.srcurl # e.url => CopiesIn(x, r.link) = CopiesIn(x, link)
            /\ BagToSet(r.site) \subseteq SiteRows
            /\ BagToSet(r.link) \subseteq LinkRows

\* site a.example was deleted: no link has it as source, the one link of
\* b.example, to a.example, is still there
C8_Witness ==
    /\ last.op = "delete_site_by_url" /\ last.a = KeyA
    /\ ~IsSite(KeyA) /\ IsSite(KeyB)
    /\ link = SetToBag({[srcurl |-> KeyB, dsturl |-> KeyA]})

\* C9: set_site(url, t1) then set_site(url, t2) leaves one row for url, with
\* crawltime t2; and no two site rows ever share a url
C9_OneRowPerUrl ==
    /\ \A r \in SiteRows : Count(site, "url", r.url) = 1
    /\ \A e1 \in SiteEntries, e2 \in SiteEntries :
         e1.url = e2.url =>
            LET r1 == set_site(site, link, e1)
                r2 == set_site(r1.site, r1.link, e2)
            IN  /\ r1.res = "Ok" /\ r2.res = "Ok"
                /\ Where(r2.site, "url", e2.url) = SetToBag({e2})
    /\ last.op = "set_site" => CopiesIn([url |-> last.a, crawltime |-> last.t], site) = 1

\* site a.example, which has links and so was there before, was set again
C9_Witness ==
    /\ last.op = "set_site" /\ last.a = KeyA /\ last.t = MaxCrawltime
    /\ \E r \in LinkRows : r.srcurl = KeyA
    /\ Where(site, "url", KeyA) = SetToBag({[url |-> KeyA, crawltime |-> MaxCrawltime]})

\* set_link(a, b), with a site row a, succeeds any number of times and leaves
\* one row (a, b), the other rows as they were
SetLinkIdempotent ==
    /\ \A r \in LinkRows : CopiesIn(r, link) = 1
    /\ \A e \in LinkEntries :
         IsSite(e.srcurl) =>
            LET r1 == set_link(site, link, e)
                r2 == set_link(r1.site, r1.link, e)
            IN  /\ r1.res = "Ok" /\ r2.res = "Ok"
                /\ CopiesIn(e, r1.link) = 1
                /\ r2.link = r1.link
                /\ \A x \in LinkRows \cup BagToSet(r1.link) :
                     x # e => CopiesIn(x, r1.link) = CopiesIn(x, link)

\* a step that records a pair: a set_link that returned Ok
Recorded == last'.op = "set_link" /\ last'.res = "Ok" /\ last' # last
RecordStep ==
    /\ Recorded
    /\ BagToSet(link') = LinkRows \cup {[srcurl |-> last'.a, dsturl |-> last'.b]}
\* a step that cascades: the links of the deleted site go
CascadeStep ==
    /\ last'.op = "delete_site_by_url"
    /\ BagToSet(link') = {r \in LinkRows : r.srcurl # last'.a}
\* a step of delete_links_by_srcurl: the links of the source go
DeleteLinksStep ==
    /\ last'.op = "delete_links_by_srcurl"
    /\ BagToSet(link') = {r \in LinkRows : r.srcurl # last'.a}

\* C10, as claimed: set_link is idempotent, and the link table is the set of
\* pairs recorded and not since cascaded away: it changes only by a recorded
\* pair coming in and by a cascade
C10_Original ==
    /\ []SetLinkIdempotent
    /\ [][IF Recorded THEN RecordStep
          ELSE (CascadeStep \/ BagToSet(link') = LinkRows)]_vars

\* C10, amended: ... and not since deleted, by the cascade of
\* delete_site_by_url or by delete_links_by_srcurl
C10_SetUnion ==
    /\ []SetLinkIdempotent
    /\ [][IF Recorded THEN RecordStep
          ELSE (CascadeStep \/ DeleteLinksStep \/ BagToSet(link') = LinkRows)]_vars

\* a second pair was recorded for a site, each pair held once
C10_Witness ==
    /\ last.op = "set_link" /\ last.res = "Ok"
    /\ CopiesIn([srcurl |-> last.a, dsturl |-> last.b], link) = 1
    /\ BagCardinality(link) >= 2

\* the last call was get_site_with_oldest_crawltime
GotOldest == last.op = "get_site_with_oldest_crawltime"

\* C11: on a store with site rows, get_site_with_oldest_crawltime returns a row
\* that is in the store and whose crawltime is at most that of every site row,
\* and the call changes no row
C11_OldestIsMinimal ==
    /\ []((GotOldest /\ site # EmptyBag) =>
            /\ last.res = "Some"
            /\ [url |-> last.a, crawltime |-> last.t] \in SiteRows
            /\ \A x \in SiteRows : last.t <= x.crawltime)
    /\ [][last'.op = "get_site_with_oldest_crawltime" => (site' = site /\ link' = link)]_vars

\* three sites, the second registered holds the least crawltime (as 100, 50,
\* 200 do), and it is the one returned
C11_Witness ==
    /\ GotOldest
    /\ site = SetToBag({[url |-> KeyA, crawltime |-> 1],
                        [url |-> KeyB, crawltime |-> 0],
                        [url |-> KeyC, crawltime |-> 2]})
    /\ last.a = KeyB /\ last.t = 0

\* C12: on a store without site rows, get_site_with_oldest_crawltime returns
\* Ok(None)
C12_EmptyGivesNone == (GotOldest /\ site = EmptyBag) => last.res = "None"

\* C13: update_site_crawltime on a url without a site row returns an error and
\* leaves both tables as they are; it returns Ok exactly when there is one row
\* for the url, and then that row has the new crawltime and the others are as
\* they were
C13_UpdateNeedsSite ==
    /\ \A e \in SiteEntries :
         LET r == update_site_crawltime(site, link, e)
         IN  /\ ~IsSite(e.url) => (r.res = "Err" /\ r.site = site /\ r.link = link)
             /\ r.res = "Ok" <=> Count(site, "url", e.url) = 1
             /\ r.res = "Ok" =>
                    /\ Where(r.site, "url", e.url) = SetToBag({e})
                    /\ WhereNot(r.site, "url", e.url) = WhereNot(site, "url", e.url)
                    /\ r.link = link
    /\ (last.op = "update_site_crawltime" /\ last.res = "Err") => ~IsSite(last.a)
    /\ (last.op = "update_site_crawltime" /\ last.res = "Ok") =>
            CopiesIn([url |-> last.a, crawltime |-> last.t], site) = 1

\* update_site_crawltime failed on b.example, which has no row, on a store
\* that holds the site a.example and a link
C13_Witness ==
    /\ last.op = "update_site_crawltime" /\ last.res = "Err"
    /\ last.a = KeyB /\ ~IsSite(KeyB)
    /\ IsSite(KeyA) /\ link # EmptyBag

\* the url has a host: a domain name or an IP address
HasHost(u) == u.host.kind # "none"

\* C16: SiteEntry::new and LinkEntry::new return an error exactly when a url
\* given to them has no host
C16_EntryIffHost ==
    /\ last.op = "SiteEntry_new" => (last.res = "Err" <=> ~HasHost(last.a))
    /\ last.op = "LinkEntry_new" =>
            (last.res = "Err" <=> (~HasHost(last.a) \/ ~HasHost(last.b)))

\* C21: set_site on a url that has a site row changes the crawltime of that
\* row and nothing else: the other site rows and all link rows, those with
\* the url as source too, are as they were
C21_SetSiteFrame ==
    /\ [](\A e \in SiteEntries :
            IsSite(e.url) =>
                LET r == set_site(site, link, e)
                IN  /\ r.link = link
                    /\ WhereNot(r.site, "url", e.url) = WhereNot(site, "url", e.url)
                    /\ Where(r.site, "url", e.url) = SetToBag({e}))
    /\ [][(last'.op = "set_site" /\ IsSite(last'.a)) =>
            (/\ link' = link
             /\ WhereNot(site', "url", last'.a) = WhereNot(site, "url", last'.a))]_vars

\* the crawltime of a.example, which has two links and stands beside
\* b.example, was set from another value to 1
C21_Witness ==
    /\ last.op = "set_site" /\ last.a = KeyA /\ last.t = 1
    /\ site = SetToBag({[url |-> KeyA, crawltime |-> 1], [url |-> KeyB, crawltime |-> 0]})
    /\ link = SetToBag({[srcurl |-> KeyA, dsturl |-> KeyB], [srcurl |-> KeyA, dsturl |-> KeyC]})
====
